---- MODULE Spec2Model ----
(***************************************************************************)
(* Model of mbox_split.py: decode_rfc2822 (the header decoder) and         *)
(* process_mbox (the label router and the message loop).                   *)
(*                                                                         *)
(* Text is a sequence of code points (naturals), bytes are naturals in     *)
(* 0..255.  Str turns a tuple of one-character strings into text, so that  *)
(* literals stay readable: Str(<<"a","b">>) = <<97, 98>>.                  *)
(***************************************************************************)
EXTENDS Integers, Sequences, FiniteSets, TLC

\* ------------------------------------------------------------------ bounds
\* Largest number of messages the source container holds in Spec.
MaxMsgs == 3
\* Largest number of comma separated tokens of a plain label header in SpecWide.
MaxToks == 3
\* Largest number of payload items of an encoded word in SpecWide.
MaxPayload == 2

\* ------------------------------------------------------- characters, text
\* Printable ASCII, code points 32..126, in order (bsl and bqt stand for the backslash and the backquote).
Ascii ==
  << " ", "!", "\"", "#", "$", "%", "&", "'", "(", ")", "*", "+", ",", "-", ".", "/",
     "0", "1", "2", "3", "4", "5", "6", "7", "8", "9", ":", ";", "<", "=", ">", "?",
     "@", "A", "B", "C", "D", "E", "F", "G", "H", "I", "J", "K", "L", "M", "N", "O",
     "P", "Q", "R", "S", "T", "U", "V", "W", "X", "Y", "Z", "[", "bsl", "]", "^", "_",
     "bqt", "a", "b", "c", "d", "e", "f", "g", "h", "i", "j", "k", "l", "m", "n", "o",
     "p", "q", "r", "s", "t", "u", "v", "w", "x", "y", "z", "{", "|", "}", "~" >>

Ord(c) == 31 + (CHOOSE i \in DOMAIN Ascii : Ascii[i] = c)

Str(s) == [i \in DOMAIN s |-> Ord(s[i])]

\* Concatenation of a sequence of texts, in order (''.join).
RECURSIVE Join(_)
Join(ss) == IF ss = <<>> THEN <<>> ELSE Head(ss) \o Join(Tail(ss))

\* sub in text  (the Python substring test).
Contains(text, sub) ==
  \E i \in 0..(Len(text) - Len(sub)) : SubSeq(text, i + 1, i + Len(sub)) = sub

\* text.split(sep) for a one-character separator: never empty, "" gives [""].
RECURSIVE SplitFrom(_, _, _)
SplitFrom(text, sep, cur) ==
  IF text = <<>> THEN <<cur>>
  ELSE IF Head(text) = sep THEN <<cur>> \o SplitFrom(Tail(text), sep, <<>>)
  ELSE SplitFrom(Tail(text), sep, Append(cur, Head(text)))

Split(text, sep) == SplitFrom(text, sep, <<>>)

\* text.replace(old, new) for one-character old and new: every occurrence.
Replace(text, old, new) == [i \in DOMAIN text |-> IF text[i] = old THEN new ELSE text[i]]

\* Case of a code point, for the ASCII and Latin-1 letters (the multiplication
\* and division signs 215 and 247 are not letters).
IsUpper(c) == (65 <= c /\ c <= 90) \/ (192 <= c /\ c <= 222 /\ c # 215)
IsLower(c) == (97 <= c /\ c <= 122) \/ (224 <= c /\ c <= 254 /\ c # 247)
IsCased(c) == IsUpper(c) \/ IsLower(c)
LowerChar(c) == IF IsUpper(c) THEN c + 32 ELSE c
UpperChar(c) == IF IsLower(c) THEN c - 32 ELSE c

\* str.lower()
Lower(text) == [i \in DOMAIN text |-> LowerChar(text[i])]

\* str.title(): a cased character is upper-cased when the character before it
\* is not cased (or there is none), and lower-cased otherwise.
Title(text) ==
  [i \in DOMAIN text |->
     IF i > 1 /\ IsCased(text[i - 1]) THEN LowerChar(text[i]) ELSE UpperChar(text[i])]

\* ------------------------------------------------------------ byte decoders
IsCont(b) == 128 <= b /\ b <= 191

\* Length of the well-formed UTF-8 sequence that starts bs, 0 when none does.
Utf8Len(bs) ==
  LET n == Len(bs)
      b1 == bs[1]
  IN  IF n = 0 THEN 0
      ELSE IF b1 < 128 THEN 1
      ELSE IF 194 <= b1 /\ b1 <= 223
        THEN IF n >= 2 /\ IsCont(bs[2]) THEN 2 ELSE 0
      ELSE IF 224 <= b1 /\ b1 <= 239
        THEN IF /\ n >= 3
                /\ IsCont(bs[2])
                /\ IsCont(bs[3])
                /\ (b1 = 224 => bs[2] >= 160)
                /\ (b1 = 237 => bs[2] <= 159)
             THEN 3 ELSE 0
      ELSE IF 240 <= b1 /\ b1 <= 244
        THEN IF /\ n >= 4
                /\ IsCont(bs[2])
                /\ IsCont(bs[3])
                /\ IsCont(bs[4])
                /\ (b1 = 240 => bs[2] >= 144)
                /\ (b1 = 244 => bs[2] <= 143)
             THEN 4 ELSE 0
      ELSE 0

Utf8Point(bs, n) ==
  IF n = 1 THEN bs[1]
  ELSE IF n = 2 THEN (bs[1] - 192) * 64 + (bs[2] - 128)
  ELSE IF n = 3 THEN (bs[1] - 224) * 4096 + (bs[2] - 128) * 64 + (bs[3] - 128)
  ELSE (bs[1] - 240) * 262144 + (bs[2] - 128) * 4096 + (bs[3] - 128) * 64 + (bs[4] - 128)

\* bytes.decode('utf8', errors='ignore'): well-formed sequences decode, every
\* other byte is dropped.
RECURSIVE Utf8Ignore(_)
Utf8Ignore(bs) ==
  IF bs = <<>> THEN <<>>
  ELSE LET n == Utf8Len(bs)
       IN  IF n = 0 THEN Utf8Ignore(Tail(bs))
           ELSE <<Utf8Point(bs, n)>> \o Utf8Ignore(SubSeq(bs, n + 1, Len(bs)))

\* bytes.decode('ascii', errors='ignore')
AsciiIgnore(bs) == SelectSeq(bs, LAMBDA b : b < 128)

\* bytes.decode('latin-1', errors='ignore'): every byte is its code point.
Latin1(bs) == bs

\* --------------------------------------------------------- header values
\* A header value, as message.get returns it, is a sequence of parts.  A part is
\* plain text or an encoded word =?charset?enc?payload?= ; a payload item is a
\* literal character (esc = FALSE, v its code point) or, in a Q word, an
\* escape =XX (esc = TRUE, v the byte).  Plain text holds no encoded word, a
\* payload holds no "?" and a Q payload no bare "=".
TextPart(chars) ==
  [kind |-> "text", charset |-> "None", enc |-> "",
   payload |-> [i \in DOMAIN chars |-> [esc |-> FALSE, v |-> chars[i]]]]

Word(charset, enc, payload) ==
  [kind |-> "word", charset |-> charset, enc |-> enc, payload |-> payload]

Lit(c) == [esc |-> FALSE, v |-> Ord(c)]
Esc(b) == [esc |-> TRUE, v |-> b]

Absent == [kind |-> "absent", parts |-> <<>>]
Value(parts) == [kind |-> "str", parts |-> parts]
\* A value with raw 8-bit bytes: message.get returns a Header object, not a str.
EightBit == [kind |-> "8bit", parts |-> <<>>]

\* str.lower() of a header value: every literal character is lower-cased, the
\* payload of an encoded word included; an escape =XX names the same byte.
LowerPart(p) ==
  [p EXCEPT !.payload =
     [i \in DOMAIN p.payload |->
        IF p.payload[i].esc THEN p.payload[i]
        ELSE [esc |-> FALSE, v |-> LowerChar(p.payload[i].v)]]]

LowerValue(parts) == [i \in DOMAIN parts |-> LowerPart(parts[i])]

Literals(p) == [i \in DOMAIN p.payload |-> p.payload[i].v]

\* ------------------------------------------- email.header.decode_header
IsSpace(c) == c = 32 \/ (9 <= c /\ c <= 13)

RECURSIVE LStrip(_)
LStrip(text) ==
  IF text # <<>> /\ IsSpace(Head(text)) THEN LStrip(Tail(text)) ELSE text

AllSpace(text) == text # <<>> /\ \A i \in DOMAIN text : IsSpace(text[i])

HasWord(parts) == \E i \in DOMAIN parts : parts[i].kind = "word"

\* The words of the value: unencoded text (the first left-stripped, empty text
\* left out) and encoded words, in order.
RECURSIVE WordsFrom(_, _)
WordsFrom(parts, first) ==
  IF parts = <<>> THEN <<>>
  ELSE LET p == Head(parts)
           t == IF first THEN LStrip(Literals(p)) ELSE Literals(p)
       IN  IF p.kind = "word" THEN <<p>> \o WordsFrom(Tail(parts), FALSE)
           ELSE IF t = <<>> THEN WordsFrom(Tail(parts), FALSE)
           ELSE <<TextPart(t)>> \o WordsFrom(Tail(parts), FALSE)

\* Whitespace between two encoded words is dropped.
DropsAt(ws, i) ==
  /\ i > 1
  /\ i < Len(ws)
  /\ ws[i].kind = "text"
  /\ ws[i - 1].kind = "word"
  /\ ws[i + 1].kind = "word"
  /\ AllSpace(Literals(ws[i]))

RECURSIVE DropSpaceFrom(_, _)
DropSpaceFrom(ws, i) ==
  IF i > Len(ws) THEN <<>>
  ELSE IF DropsAt(ws, i) THEN DropSpaceFrom(ws, i + 1)
  ELSE <<ws[i]>> \o DropSpaceFrom(ws, i + 1)

DropSpace(ws) == DropSpaceFrom(ws, 1)

\* email.quoprimime.header_decode: "_" is a space, =XX is the byte XX.
QDecode(payload) ==
  [i \in DOMAIN payload |->
     IF payload[i].esc THEN payload[i].v
     ELSE IF payload[i].v = Ord("_") THEN 32 ELSE payload[i].v]

\* The base64 alphabet, values 0..63 in order.
B64Alphabet ==
  << "A", "B", "C", "D", "E", "F", "G", "H", "I", "J", "K", "L", "M", "N", "O", "P",
     "Q", "R", "S", "T", "U", "V", "W", "X", "Y", "Z", "a", "b", "c", "d", "e", "f",
     "g", "h", "i", "j", "k", "l", "m", "n", "o", "p", "q", "r", "s", "t", "u", "v",
     "w", "x", "y", "z", "0", "1", "2", "3", "4", "5", "6", "7", "8", "9", "+", "/" >>

B64Val(c) == (CHOOSE i \in DOMAIN B64Alphabet : Ord(B64Alphabet[i]) = c) - 1

\* The base64 word is padded to a multiple of four characters and decoded;
\* one character left over is a binascii.Error, which decode_header turns
\* into HeaderParseError.
B64Raises(chars) == Len(chars) % 4 = 1

RECURSIVE B64Decode(_)
B64Decode(chars) ==
  LET n == Len(chars)
      v(i) == B64Val(chars[i])
  IN  IF n < 2 THEN <<>>
      ELSE IF n = 2 THEN << v(1) * 4 + (v(2) \div 16) >>
      ELSE IF n = 3
        THEN << v(1) * 4 + (v(2) \div 16), (v(2) % 16) * 16 + (v(3) \div 4) >>
      ELSE << v(1) * 4 + (v(2) \div 16),
              (v(2) % 16) * 16 + (v(3) \div 4),
              (v(3) % 4) * 64 + v(4) >> \o B64Decode(SubSeq(chars, 5, n))

WordRaises(w) == w.kind = "word" /\ w.enc = "b" /\ B64Raises(Literals(w))

WordBytes(w) ==
  IF w.kind = "text" THEN Literals(w)
  ELSE IF w.enc = "q" THEN QDecode(w.payload)
  ELSE B64Decode(Literals(w))

\* Consecutive words of one charset are collapsed into one segment; unencoded
\* text (charset None) is joined with a space.
RECURSIVE Collapse(_, _, _)
Collapse(ws, word, charset) ==
  IF ws = <<>> THEN << [str |-> FALSE, val |-> word, charset |-> charset] >>
  ELSE LET w == Head(ws)
       IN  IF w.charset # charset
             THEN << [str |-> FALSE, val |-> word, charset |-> charset] >>
                  \o Collapse(Tail(ws), WordBytes(w), w.charset)
           ELSE IF charset = "None"
             THEN Collapse(Tail(ws), word \o <<32>> \o WordBytes(w), charset)
           ELSE Collapse(Tail(ws), word \o WordBytes(w), charset)

\* decode_header raises HeaderParseError.
DecodeHeaderRaises(parts) ==
  HasWord(parts) /\ \E i \in DOMAIN parts : WordRaises(parts[i])

\* decode_header: the (value, charset) segments; a value without encoded word
\* comes back whole, as text (str = TRUE) with charset None.
DecodeHeader(parts) ==
  IF ~ HasWord(parts)
    THEN << [str |-> TRUE, val |-> Join([i \in DOMAIN parts |-> Literals(parts[i])]),
             charset |-> "None"] >>
  ELSE LET ws == DropSpace(WordsFrom(parts, TRUE))
       IN  Collapse(Tail(ws), WordBytes(Head(ws)), Head(ws).charset)

\* ------------------------------------------------------- decode_rfc2822
\* The codecs Python finds for a charset name; any other name is a LookupError.
KnownCharsets == {"utf-8", "us-ascii", "iso-8859-1"}

CodecDecode(charset, bs) ==
  IF bs = <<>> THEN <<>>
  ELSE IF charset = "utf-8" THEN Utf8Ignore(bs)
  ELSE IF charset = "us-ascii" THEN AsciiIgnore(bs)
  ELSE Latin1(bs)

\* "if charset:" : None and the empty name are false.
CharsetGiven(charset) == charset # "None" /\ charset # ""

\* binary_value.decode(charset, errors='ignore') raises (an unknown codec).
\* CPython decodes empty bytes to "" before it looks the codec up.
DeclaredRaises(seg) ==
  CharsetGiven(seg.charset) /\ seg.charset \notin KnownCharsets /\ seg.val # <<>>

\* binary_value.decode('utf8', errors='ignore') raises: with errors='ignore' the
\* UTF-8 codec rejects no byte sequence.
Utf8Raises(bs) == FALSE

HexDigits == Str(<<"0", "1", "2", "3", "4", "5", "6", "7", "8", "9",
                   "a", "b", "c", "d", "e", "f">>)

\* f'HEX({binary_value.hex()})'
HexToken(bs) ==
  Str(<<"H", "E", "X", "(">>)
  \o Join([i \in DOMAIN bs |-> <<HexDigits[(bs[i] \div 16) + 1], HexDigits[(bs[i] % 16) + 1]>>])
  \o Str(<<")">>)

\* The text of one segment of decode_header.
DecodeSegment(seg) ==
  IF seg.str THEN seg.val
  ELSE IF CharsetGiven(seg.charset) /\ ~ DeclaredRaises(seg)
    THEN CodecDecode(seg.charset, seg.val)
  ELSE IF Utf8Raises(seg.val) THEN HexToken(seg.val)
  ELSE Utf8Ignore(seg.val)

\* decode_rfc2822(header_value): the joined text of the segments.
DecodeRfc2822(parts) ==
  LET segs == DecodeHeader(parts)
  IN  Join([i \in DOMAIN segs |-> DecodeSegment(segs[i])])

\* The "Error decoding header" lines decode_rfc2822 prints: one per segment
\* whose declared charset cannot be used.
DecodeReports(parts) ==
  LET segs == DecodeHeader(parts)
      bad == SelectSeq(segs, LAMBDA g : ~ g.str /\ DeclaredRaises(g))
  IN  [i \in DOMAIN bad |-> "Error decoding header"]

\* ---------------------------------------------------------- process_mbox
VARIABLES
  prefix,   \* the prefix argument of process_mbox
  pathsep,  \* os.pathsep of the platform
  src,      \* the messages read from the source container so far
  boxes,    \* the bucket registry: key -> handle
  handles,  \* the mailbox.mbox objects opened, in order: path and messages added
  files,    \* the output files: path -> messages in the file
  reports,  \* the lines printed
  log,      \* per message routed: label text, target, handle, created, added
  pc,       \* "loop", "done" (source exhausted) or "aborted" (an error escaped)
  error     \* the exception that ended the run, "" when none

vars == <<prefix, pathsep, src, boxes, handles, files, reports, log, pc, error>>

InboxKey == Str(<<"i", "n", "b", "o", "x">>)
SentKey == Str(<<"s", "e", "n", "t">>)
ArchiveKey == Str(<<"a", "r", "c", "h", "i", "v", "e">>)
Comma == Ord(",")
Period == Ord(".")
MboxSuffix == Str(<<".", "m", "b", "o", "x">>)

\* The labels that never name a bucket.
Excluded ==
  { Str(<<"i", "m", "p", "o", "r", "t", "a", "n", "t">>),
    Str(<<"u", "n", "r", "e", "a", "d">>),
    Str(<<"s", "t", "a", "r", "r", "e", "d">>),
    Str(<<"n", "e", "w", "s", "l", "e", "t", "t", "e", "r", "s">>) }

FixedKeys == {InboxKey, SentKey, ArchiveKey}

\* The three buckets opened before the loop: f"{prefix}Inbox.mbox", ...
InboxFile == Str(<<"I", "n", "b", "o", "x", ".", "m", "b", "o", "x">>)
SentFile == Str(<<"S", "e", "n", "t", ".", "m", "b", "o", "x">>)
ArchiveFile == Str(<<"A", "r", "c", "h", "i", "v", "e", ".", "m", "b", "o", "x">>)

FixedHandles(pfx) ==
  << [path |-> pfx \o InboxFile, added |-> <<>>],
     [path |-> pfx \o SentFile, added |-> <<>>],
     [path |-> pfx \o ArchiveFile, added |-> <<>>] >>

FixedBoxes == (InboxKey :> 1) @@ (SentKey :> 2) @@ (ArchiveKey :> 3)

\* message.get("X-Gmail-Labels", "") is not a str: .lower() raises AttributeError.
GetRaises(hdr) == hdr.kind = "8bit"

\* "if gmail_labels:" is false: the header is absent or its value is "".
RawEmpty(hdr) ==
  hdr.kind = "absent" \/ \A i \in DOMAIN hdr.parts : hdr.parts[i].payload = <<>> /\ hdr.parts[i].kind = "text"

\* decode_rfc2822 raises on the lower-cased value.
DecodeRaises(hdr) ==
  ~ GetRaises(hdr) /\ ~ RawEmpty(hdr) /\ DecodeHeaderRaises(LowerValue(hdr.parts))

\* gmail_labels after lines 57-59.
LabelText(hdr) ==
  IF RawEmpty(hdr) THEN <<>> ELSE DecodeRfc2822(LowerValue(hdr.parts))

LabelReports(hdr) ==
  IF RawEmpty(hdr) THEN <<>> ELSE DecodeReports(LowerValue(hdr.parts))

\* Mutant of Sanitize: only the first occurrence of the separator is replaced.
SanitizeFirstOnly(label, sep) ==
  LET t == Title(label)
      at == {i \in DOMAIN t : t[i] = sep}
  IN  [i \in DOMAIN t |->
         IF i \in at /\ \A j \in at : i <= j THEN Period ELSE t[i]]

\* f"{prefix}{label.title().replace(os.pathsep, '.')}.mbox"
Sanitize(label, sep) == Replace(Title(label), sep, Period)

DynamicTarget(pfx, sep, label) == pfx \o Sanitize(label, sep) \o MboxSuffix

\* Mutant of ScanLabels: the loop has no break, the last token that is not
\* excluded names the target.
RECURSIVE ScanLabelsNoBreak(_, _, _)
ScanLabelsNoBreak(tokens, pfx, sep) ==
  IF tokens = <<>> THEN ArchiveKey
  ELSE LET rest == ScanLabelsNoBreak(Tail(tokens), pfx, sep)
       IN  IF rest # ArchiveKey \/ Head(tokens) \in Excluded THEN rest
           ELSE pfx \o Replace(Title(Head(tokens)), sep, Period) \o MboxSuffix

\* The for loop over the tokens with its break: the first token that is not
\* excluded names the target; with none, the target stays "archive".
RECURSIVE ScanLabels(_, _, _)
ScanLabels(tokens, pfx, sep) ==
  IF tokens = <<>> THEN ArchiveKey
  ELSE IF Head(tokens) \notin Excluded THEN DynamicTarget(pfx, sep, Head(tokens))
  ELSE ScanLabels(Tail(tokens), pfx, sep)

\* Mutant of RouteTarget: "sent" is tested before "inbox".
RouteTargetSentFirst(labels, pfx, sep) ==
  IF Contains(labels, SentKey) THEN SentKey
  ELSE IF Contains(labels, InboxKey) THEN InboxKey
  ELSE ScanLabels(Split(labels, Comma), pfx, sep)

\* target, lines 56 and 61-71.
RouteTarget(labels, pfx, sep) ==
  IF Contains(labels, InboxKey) THEN InboxKey
  ELSE IF Contains(labels, SentKey) THEN SentKey
  ELSE ScanLabels(Split(labels, Comma), pfx, sep)

\* Mutant of NeedsOpen: the registry is not consulted, every message opens a
\* mailbox for its target.
NeedsOpenAlways(bx, target) == TRUE

\* "if target not in boxes": a new mailbox.mbox is opened.
NeedsOpen(bx, target) == target \notin DOMAIN bx

\* Mutant of AddTo: the message is added to its target and, the target not being
\* the archive, to the archive bucket as well.
AddToAndArchive(st, h, id) ==
  LET one == [st EXCEPT !.handles[h].added = Append(@, id),
                        !.files[st.handles[h].path] = Append(@, id)]
  IN  IF h = 3 THEN one
      ELSE [one EXCEPT !.handles[3].added = Append(@, id),
                       !.files[st.handles[3].path] = Append(@, id)]

\* boxes[target].add(message) of an accepted message: the handle's file grows.
AddTo(st, h, id) ==
  [st EXCEPT !.handles[h].added = Append(@, id),
             !.files[st.handles[h].path] = Append(@, id)]

\* Mutant of OnHeaderParseError: the rejected message is retried on the archive
\* bucket, where it is stored.
OnHeaderParseErrorRetry(st, h, id) ==
  [st EXCEPT !.reports = Append(@, "HeaderParseError - Message skipped."),
             !.handles[3].added = Append(@, id),
             !.files[st.handles[3].path] = Append(@, id)]

\* except HeaderParseError: the append was undone by the mailbox, one line is
\* printed and the loop goes on.
OnHeaderParseError(st, h, id) ==
  [st EXCEPT !.reports = Append(@, "HeaderParseError - Message skipped.")]

\* One pass of the loop body, lines 56-75, for a message whose header decodes.
Body(st, m, pfx, sep) ==
  LET labels == LabelText(m.hdr)
      target == RouteTarget(labels, pfx, sep)
      open == NeedsOpen(st.boxes, target)
      h == IF open THEN Len(st.handles) + 1 ELSE st.boxes[target]
      st1 == [st EXCEPT !.reports = @ \o LabelReports(m.hdr)]
      st2 == IF open
               THEN [st1 EXCEPT
                       !.boxes = (target :> h) @@ @,
                       !.handles = Append(@, [path |-> target, added |-> <<>>]),
                       !.files = IF target \in DOMAIN @ THEN @ ELSE (target :> <<>>) @@ @]
               ELSE st1
      st3 == IF m.addOk THEN AddTo(st2, h, m.id) ELSE OnHeaderParseError(st2, h, m.id)
  IN  [st3 EXCEPT !.log = Append(@, [id |-> m.id, labels |-> labels, target |-> target,
                                      handle |-> h, created |-> open, added |-> m.addOk])]

State == [boxes |-> boxes, handles |-> handles, files |-> files,
          reports |-> reports, log |-> log]

\* The registry after lines 49-53; the output files do not exist before the run,
\* so each is created empty.
StartState(pfx) ==
  [boxes |-> FixedBoxes,
   handles |-> FixedHandles(pfx),
   files |-> [p \in {FixedHandles(pfx)[i].path : i \in 1..3} |-> <<>>],
   reports |-> <<>>,
   log |-> <<>>]

Prefixes == {Str(<<"s", "p", "l", "i", "t", "_">>), <<>>}
PathSeps == {Ord(":"), Ord(";")}

Start(pfx, sep) ==
  /\ prefix = pfx
  /\ pathsep = sep
  /\ src = <<>>
  /\ boxes = StartState(pfx).boxes
  /\ handles = StartState(pfx).handles
  /\ files = StartState(pfx).files
  /\ reports = <<>>
  /\ log = <<>>
  /\ pc = "loop"
  /\ error = ""

\* The next message of the source container is read and handled.
LoopBody(m) ==
  /\ pc = "loop"
  /\ m.id = Len(src) + 1
  /\ src' = Append(src, m)
  /\ UNCHANGED <<prefix, pathsep>>
  /\ IF GetRaises(m.hdr) \/ DecodeRaises(m.hdr)
       THEN /\ pc' = "aborted"
            /\ error' = IF GetRaises(m.hdr) THEN "AttributeError" ELSE "HeaderParseError"
            /\ UNCHANGED <<boxes, handles, files, reports, log>>
       ELSE LET st == Body(State, m, prefix, pathsep)
            IN  /\ boxes' = st.boxes
                /\ handles' = st.handles
                /\ files' = st.files
                /\ reports' = st.reports
                /\ log' = st.log
                /\ UNCHANGED <<pc, error>>

\* The source container is exhausted: process_mbox returns.
LoopEnd ==
  /\ pc = "loop"
  /\ pc' = "done"
  /\ UNCHANGED <<prefix, pathsep, src, boxes, handles, files, reports, log, error>>

\* The loop over a list of messages none of which makes the decoder raise.
RECURSIVE Run(_, _, _, _)
Run(st, msgs, pfx, sep) ==
  IF msgs = <<>> THEN st ELSE Run(Body(st, Head(msgs), pfx, sep), Tail(msgs), pfx, sep)

\* ------------------------------------------------------------ the inputs
\* Sequences over S of length lo..hi.
SeqsOf(S, lo, hi) == UNION {[1..k -> S] : k \in lo..hi}

RECURSIVE JoinComma(_)
JoinComma(toks) ==
  IF Len(toks) = 1 THEN Head(toks) ELSE Head(toks) \o <<Comma>> \o JoinComma(Tail(toks))

Plain(chars) == Value(<<TextPart(chars)>>)

\* Label tokens as Gmail writes them.
T_Inbox == Str(<<"I", "n", "b", "o", "x">>)
T_Sent == Str(<<"S", "e", "n", "t">>)
T_Unsent == Str(<<"U", "n", "s", "e", "n", "t">>)
T_Important == Str(<<"I", "m", "p", "o", "r", "t", "a", "n", "t">>)
T_Unread == Str(<<"U", "n", "r", "e", "a", "d">>)
T_Starred == Str(<<"S", "t", "a", "r", "r", "e", "d">>)
T_Newsletters == Str(<<"N", "e", "w", "s", "l", "e", "t", "t", "e", "r", "s">>)
T_Work == Str(<<"W", "o", "r", "k">>)
T_ProjectX == Str(<<"P", "r", "o", "j", "e", "c", "t", "X">>)
T_Archive == Str(<<"A", "r", "c", "h", "i", "v", "e">>)
T_Seps == Str(<<"a", ":", "b", ":", "c", ";", "d", ";", "e", "/", "f">>)

Tokens ==
  { T_Inbox, T_Unsent, T_Important, T_Unread, T_Starred, T_Newsletters,
    T_Work, T_ProjectX, T_Archive, T_Seps, <<>> }

Charsets == {"utf-8", "us-ascii", "iso-8859-1", "x-unknown", ""}

QItems == {Lit("W"), Lit(","), Lit("_"), Esc(195), Esc(169), Esc(255)}
BItems == {Lit("V"), Lit("d"), Lit("2"), Lit("9")}

\* =?utf-8?Q?Work?= , =?UTF-8?B?V29yaw==?= without its padding, =?utf-8?q?=49nbox?=
QWork == Word("utf-8", "q", <<Lit("W"), Lit("o"), Lit("r"), Lit("k")>>)
BWork == Word("utf-8", "b", <<Lit("V"), Lit("2"), Lit("9"), Lit("y"), Lit("a"), Lit("w")>>)
QInbox == Word("utf-8", "q", <<Esc(73), Lit("n"), Lit("b"), Lit("o"), Lit("x")>>)
\* =?x-unknown?q?=FF=FE?= and =?utf-8?b?a?=
QGarbled == Word("x-unknown", "q", <<Esc(255), Esc(254)>>)
BBroken == Word("utf-8", "b", <<Lit("a")>>)

MixedHeaders ==
  { Value(<<QWork>>),
    Value(<<BWork>>),
    Value(<<QInbox>>),
    Value(<<TextPart(T_Important \o <<Comma>>), QWork>>),
    Value(<<TextPart(<<32>>), QWork, TextPart(<<32>>), QWork, TextPart(<<Comma>> \o T_Sent)>>),
    Value(<<QWork, TextPart(<<Comma>>), QGarbled>>),
    Value(<<TextPart(T_Work), BBroken>>),
    Value(<<>>),
    Absent,
    EightBit }

WideHeaders ==
  {Plain(JoinComma(ts)) : ts \in SeqsOf(Tokens, 1, MaxToks)}
  \cup {Value(<<Word(cs, "q", pl)>>) : cs \in Charsets, pl \in SeqsOf(QItems, 0, MaxPayload)}
  \cup {Value(<<Word(cs, "b", pl)>>) : cs \in Charsets, pl \in SeqsOf(BItems, 0, MaxPayload)}
  \cup MixedHeaders

\* The headers of the messages of the multi-message runs.
SampleHeaders ==
  { Absent,
    Plain(JoinComma(<<T_Sent, T_Inbox, T_Work>>)),
    Plain(JoinComma(<<T_Sent, T_Work>>)),
    Plain(JoinComma(<<T_Starred, T_Newsletters>>)),
    Plain(T_Work),
    Plain(JoinComma(<<T_Unread, T_Work, T_ProjectX>>)),
    Plain(T_Archive),
    Value(<<QGarbled>>),
    Value(<<BBroken>>),
    EightBit }

Message(id, hdr, ok) == [id |-> id, hdr |-> hdr, addOk |-> ok]

\* ------------------------------------------------------- specifications
\* main's default prefix (-p absent) on a POSIX platform.
DefaultPrefix == Str(<<"s", "p", "l", "i", "t", "_">>)

Init == Start(DefaultPrefix, Ord(":"))

InitWide == \E pfx \in Prefixes, sep \in PathSeps : Start(pfx, sep)

\* A source container of at most MaxMsgs messages; the mailbox accepts a
\* message (addOk) or rejects it with HeaderParseError.
Step ==
  /\ Len(src) < MaxMsgs
  /\ \E hdr \in SampleHeaders, ok \in BOOLEAN : LoopBody(Message(Len(src) + 1, hdr, ok))

Next == Step \/ LoopEnd

Spec == Init /\ [][Next]_vars

\* A source container of at most one message, over the wide set of headers.
StepWide ==
  /\ Len(src) < 1
  /\ \E hdr \in WideHeaders : LoopBody(Message(1, hdr, TRUE))

NextWide == StepWide \/ LoopEnd

SpecWide == InitWide /\ [][NextWide]_vars

\* ------------------------------------------------------------ the claims
\* Number of times message id was added, over the mailboxes hs.
AppendedIn(hs, id) ==
  Cardinality({hk \in UNION {{<<h, k>> : k \in DOMAIN hs[h].added} : h \in DOMAIN hs} :
                 hs[hk[1]].added[hk[2]] = id})

Appended(id) == AppendedIn(handles, id)

Dynamic(e) == e.target \notin FixedKeys

\* C1, as stated: when process_mbox returns, every message of the source was
\* appended to exactly one bucket.
C1_ExactlyOneBucket ==
  pc = "done" => \A i \in DOMAIN src : Appended(i) = 1

\* C1, amended: when process_mbox returns, every message the mailbox accepted
\* was appended to exactly one bucket and every message it rejected with a
\* header-parse error to none; no message is in more than one bucket.
C1_OneBucketUnlessRejected ==
  pc = "done" => \A i \in DOMAIN src : Appended(i) = IF src[i].addOk THEN 1 ELSE 0

C1_Witness ==
  /\ pc = "done"
  /\ Len(src) = MaxMsgs
  /\ \E i, j \in DOMAIN src : ~ src[i].addOk /\ src[j].addOk /\ Appended(j) = 1 /\ Appended(i) = 0

\* No token of the label text qualifies: the text is empty, or every token
\* is excluded.
NoTokenQualifies(labels) ==
  labels = <<>> \/ \A k \in DOMAIN Split(labels, Comma) : Split(labels, Comma)[k] \in Excluded

\* C2: a message whose label text is empty, or whose tokens are all excluded,
\* goes to the fixed archive bucket, and no dynamic bucket is created for it.
C2_FallbackArchive ==
  \A i \in DOMAIN log :
    NoTokenQualifies(log[i].labels) =>
      log[i].target = ArchiveKey /\ log[i].handle = 3 /\ ~ log[i].created

\* C3: messages that resolve to one sanitized label are added through one
\* bucket: they share the handle, no two mailboxes are opened for the label's
\* file, and the registered bucket holds every one of them that was accepted.
C3_BucketReuse ==
  /\ \A i, j \in DOMAIN log :
       Dynamic(log[i]) /\ log[i].target = log[j].target => log[i].handle = log[j].handle
  /\ \A g, h \in DOMAIN handles :
       g > 3 /\ h > 3 /\ handles[g].path = handles[h].path => g = h
  /\ \A i \in DOMAIN log :
       Dynamic(log[i]) /\ log[i].added =>
         /\ log[i].target \in DOMAIN boxes
         /\ \E k \in DOMAIN handles[boxes[log[i].target]].added :
              handles[boxes[log[i].target]].added[k] = log[i].id

WorkBucket == DefaultPrefix \o Str(<<"W", "o", "r", "k", ".", "m", "b", "o", "x">>)

C3_Witness ==
  /\ Len(log) >= 2
  /\ log[1].labels # log[2].labels
  /\ log[1].target = WorkBucket
  /\ log[2].target = WorkBucket
  /\ WorkBucket \in DOMAIN boxes
  /\ handles[boxes[WorkBucket]].added = <<1, 2>>
  /\ files[WorkBucket] = <<1, 2>>

SkipLines(rs) == Len(SelectSeq(rs, LAMBDA r : r = "HeaderParseError - Message skipped."))

\* The step handles a message that the mailbox rejects.
RejectStep == Len(log') = Len(log) + 1 /\ ~ log'[Len(log')].added

\* The messages of the source that the mailbox accepted.
AcceptedOnly == SelectSeq(src, LAMBDA m : m.addOk /\ ~ GetRaises(m.hdr) /\ ~ DecodeRaises(m.hdr))

\* The buckets hold what a run over the accepted messages alone leaves in them.
SameAsWithoutRejected ==
  LET r == Run(StartState(prefix), AcceptedOnly, prefix, pathsep)
  IN  /\ DOMAIN r.files \subseteq DOMAIN files
      /\ \A p \in DOMAIN files :
           files[p] = IF p \in DOMAIN r.files THEN r.files[p] ELSE <<>>
      /\ DOMAIN r.boxes \subseteq DOMAIN boxes
      /\ \A k \in DOMAIN boxes :
           handles[boxes[k]].added =
             IF k \in DOMAIN r.boxes THEN r.handles[r.boxes[k]].added ELSE <<>>

\* C4: a message rejected with HeaderParseError is added to no bucket, every
\* bucket and file keeps its content (a bucket opened for the message is
\* empty), exactly one skip line is printed, the loop goes on, and the
\* messages after it land where they land without it.
C4_SkipRejected ==
  /\ [][RejectStep =>
          /\ \A h \in DOMAIN handles : handles'[h] = handles[h]
          /\ \A h \in DOMAIN handles' \ DOMAIN handles : handles'[h].added = <<>>
          /\ \A p \in DOMAIN files : files'[p] = files[p]
          /\ \A p \in DOMAIN files' \ DOMAIN files : files'[p] = <<>>
          /\ SkipLines(reports') = SkipLines(reports) + 1
          /\ AppendedIn(handles', Len(src')) = 0
          /\ pc' = "loop"]_vars
  /\ [](SameAsWithoutRejected)
  /\ [](SkipLines(reports) = Cardinality({i \in DOMAIN log : ~ log[i].added}))

C4_Witness ==
  /\ Len(log) = 3
  /\ log[1].added /\ ~ log[2].added /\ log[3].added
  /\ log[2].created
  /\ log[3].target = log[2].target
  /\ files[log[2].target] = <<3>>
  /\ SkipLines(reports) = 1

\* C5: decode_rfc2822 returns a text for every header value: no error escapes
\* it, and none ends the message loop.
C5_DecodeTotal ==
  /\ \A i \in DOMAIN src : ~ DecodeRaises(src[i].hdr)
  /\ error # "HeaderParseError"

\* C10: distinct keys of the registry are backed by distinct files.
C10_DistinctPaths ==
  \A j, k \in DOMAIN boxes :
    j # k => handles[boxes[j]].path # handles[boxes[k]].path

\* The segments decode_header gives for a header value that decodes.
Segments(hdr) ==
  IF RawEmpty(hdr) \/ GetRaises(hdr) \/ DecodeRaises(hdr) THEN <<>>
  ELSE DecodeHeader(LowerValue(hdr.parts))

Unsupported(charset) == CharsetGiven(charset) /\ charset \notin KnownCharsets

\* C6: a non-empty byte segment tagged with an unsupported charset decodes to
\* a non-empty text: the UTF-8 text recovered from it or its HEX(...) token.
C6_NeverEmpty ==
  \A i \in DOMAIN src :
    \A k \in DOMAIN Segments(src[i].hdr) :
      LET seg == Segments(src[i].hdr)[k]
      IN  (~ seg.str /\ seg.val # <<>> /\ Unsupported(seg.charset)) =>
            /\ DecodeSegment(seg) # <<>>
            /\ DecodeSegment(seg) \in {Utf8Ignore(seg.val), HexToken(seg.val)}

\* The part of a dynamic bucket's key between the prefix and ".mbox".
BucketName(key) == SubSeq(key, Len(prefix) + 1, Len(key) - Len(MboxSuffix))

\* The first token of the label text that is not excluded.
FirstQualifying(labels) ==
  LET toks == Split(labels, Comma)
      k == CHOOSE n \in DOMAIN toks :
             toks[n] \notin Excluded /\ \A j \in 1..(n - 1) : toks[j] \in Excluded
  IN  toks[k]

C8_Priority ==
  \A i \in DOMAIN log :
    /\ Contains(log[i].labels, InboxKey) =>
         log[i].target = InboxKey /\ log[i].handle = 1 /\ ~ log[i].created
    /\ (Contains(log[i].labels, SentKey) /\ ~ Contains(log[i].labels, InboxKey)) =>
         log[i].target = SentKey /\ log[i].handle = 2 /\ ~ log[i].created
    /\ (Contains(log[i].labels, InboxKey) \/ Contains(log[i].labels, SentKey)) =>
         DOMAIN boxes = FixedKeys /\ Len(handles) = 3

C8_Witness ==
  /\ Len(log) = 1
  /\ log[1].labels = Str(<<"w", "o", "r", "k", ",", "u", "n", "s", "e", "n", "t", ",", "i", "n", "b", "o", "x">>)
  /\ log[1].target = InboxKey
  /\ handles[1].added = <<1>>
  /\ DOMAIN boxes = FixedKeys

\* C9: with neither "inbox" nor "sent" in the label text, the first token, in
\* order, that is not excluded names the dynamic bucket: excluded tokens before
\* it are skipped, tokens after it are ignored.
C9_FirstQualifyingToken ==
  \A i \in DOMAIN log :
    (~ Contains(log[i].labels, InboxKey) /\ ~ Contains(log[i].labels, SentKey)) =>
      LET toks == Split(log[i].labels, Comma)
      IN  /\ \A k \in DOMAIN toks :
               (toks[k] \notin Excluded /\ \A j \in 1..(k - 1) : toks[j] \in Excluded) =>
                 /\ log[i].target = prefix \o Replace(Title(toks[k]), pathsep, Period) \o MboxSuffix
                 /\ log[i].target \in DOMAIN boxes
                 /\ log[i].handle = boxes[log[i].target]
          /\ log[i].labels = Str(<<"i", "m", "p", "o", "r", "t", "a", "n", "t", ",", "u", "n", "r", "e", "a", "d", ",", "p", "r", "o", "j", "e", "c", "t", "x">>) =>
               log[i].target = prefix \o Str(<<"P", "r", "o", "j", "e", "c", "t", "x", ".", "m", "b", "o", "x">>)

C9_Witness ==
  /\ Len(log) = 1
  /\ log[1].labels = Str(<<"i", "m", "p", "o", "r", "t", "a", "n", "t", ",", "p", "r", "o", "j", "e", "c", "t", "x", ",", "w", "o", "r", "k">>)
  /\ log[1].target = prefix \o Str(<<"P", "r", "o", "j", "e", "c", "t", "x", ".", "m", "b", "o", "x">>)
  /\ DOMAIN boxes = FixedKeys \cup {prefix \o Str(<<"P", "r", "o", "j", "e", "c", "t", "x", ".", "m", "b", "o", "x">>)}
  /\ files[prefix \o Str(<<"P", "r", "o", "j", "e", "c", "t", "x", ".", "m", "b", "o", "x">>)] = <<1>>

====
